---- MODULE Spec2Model ----
(***************************************************************************)
(* az-acme2keyvault: the certificate issuance workflow (run and            *)
(* orderCertificate of src/shared/acme2keyvault.ts and                     *)
(* src/shared/certRequest.ts) and the renewal coordinator (the durable     *)
(* orchestrator of AcmeRenewCoordinator).                                  *)
(*                                                                         *)
(* Every awaited call of the code is one position of the caller: a pc      *)
(* names the call that is in flight, and the action "<call>Return" is the  *)
(* completion of that call (success or failure, chosen by the              *)
(* collaborator) together with everything the caller does synchronously    *)
(* up to its next await, which includes the invocation of the next call    *)
(* and, for a promise that settles, the microtask continuations of its     *)
(* awaiters.                                                               *)
(***************************************************************************)
EXTENDS Integers, Sequences, FiniteSets, TLC

\* ------------------------------------------------------------------ bounds
MaxAltNames == 1        \* longest alternativeNames list of a request
MaxBatch == 3           \* largest selection returned by AcmeCertList
MaxBlobs == 2           \* most blobs in the cert-requests container
MaxInvocations == 2     \* invocations of AcmeCertList in one worker process
MaxClockDays == 1
MaxFlows == 2       \* days the worker process stays alive

\* ------------------------------------------------------------- input sets
\* Domain names are sequences of characters, so that String.replace can be
\* computed as the code computes it.  "e.o" stands for example.org.
Apex == <<"e", ".", "o">>
Www == <<"w", ".", "e", ".", "o">>
\* w.example.org.c.example.org, a name of the zone that holds the zone twice
Nested == <<"w", ".", "e", ".", "o", ".", "c", ".", "e", ".", "o">>
\* w.c.example.org.example.org, another such name
Twin == <<"w", ".", "c", ".", "e", ".", "o", ".", "e", ".", "o">>
EmptyName == <<>>       \* the empty string
DnsZone == Apex         \* certRequest.azure.dnsZone
CommonNames == {Apex}
AltNamePool == {Www, Apex, Nested}
Absent == "undefined"   \* the value of a missing property / of a failed find
ChallengeTypes == {"dns-01", "http-01"}
Modes == {"A", "B"}     \* A: local key + importCertificate, B: vault key + mergeCertificate
EnvMode == "E"          \* as A, the request read from the environment (Acme2KeyVault/index.ts)

VARIABLES
    mode,            \* which run() is executing
    certKey,         \* certRequest.certKey / certRequest.csr: commonName, alternativeNames
    runPc,           \* position of run()
    runErr,          \* the error run() rejected with
    orderPc,         \* position of orderCertificate()
    orderErr,        \* the error orderCertificate() threw
    orderIds,        \* identifiers passed to client.createOrder
    authorizations,  \* the per-authorization tasks given to Promise.all
    calls,           \* number of invocations of each authority / store call
    zone,            \* the TXT record sets of the DNS zone: name, tTL, value
    store,           \* Key Vault entry of keyVaultCertName: pending operation, certificate versions
    holdsKey,        \* the workflow holds private key material
    coordPc,         \* position of the orchestrator generator
    certRequests,    \* result of the AcmeCertList activity
    tasks,           \* state of each Acme2KeyVaultActivity task
    inputs,          \* the certRequest each Acme2KeyVaultActivity task was called with
    coordOutput,     \* what the orchestration instance reports on completion
    selector,        \* which AcmeCertList source is deployed
    renewEnv,        \* the RENEW_DAYS_THRESHOLD setting
    now,             \* the clock
    today,           \* the Date the selector compares expiry dates with
    blobs,           \* the container: blob name, document, what the vault answers for it
    selPc,           \* position of the AcmeCertList function
    selErr,          \* the error the function rejected with
    selIdx,          \* how many blobs the listing has yielded
    selResult,       \* the certRequests array, as indices of blobs
    invocations,     \* invocations of AcmeCertList so far
    json,            \* the request document handed to the blob-triggered function
    parsed,          \* what fromJson made of it
    flows,           \* concurrent invocations of run(): request, position, CSR read
    vault            \* the certificate entries of the vaults, by vault and name

orderVars == <<mode, certKey, runPc, runErr, orderPc, orderErr, orderIds,
               authorizations, calls, zone, store, holdsKey>>
coordVars == <<coordPc, certRequests, tasks, inputs, coordOutput>>
selVars == <<selector, renewEnv, now, today, blobs, selPc, selErr, selIdx,
             selResult, invocations>>
docVars == <<json, parsed>>
concVars == <<flows, vault>>
vars == <<mode, certKey, runPc, runErr, orderPc, orderErr, orderIds,
          authorizations, calls, zone, store, holdsKey,
          coordPc, certRequests, tasks, inputs, coordOutput,
          selector, renewEnv, now, today, blobs, selPc, selErr, selIdx,
          selResult, invocations, json, parsed, flows, vault>>

\* ---------------------------------------------------------------- helpers
RECURSIVE SeqsUpTo(_, _)
SeqsUpTo(S, n) ==
    IF n = 0 THEN {<<>>}
    ELSE LET shorter == SeqsUpTo(S, n - 1)
         IN shorter \cup {Append(s, x) : s \in {t \in shorter : Len(t) = n - 1}, x \in S}

Range(s) == {s[i] : i \in DOMAIN s}

\* The authority answers an order with one authorization per distinct
\* identifier, in the order of first occurrence.
RECURSIVE Distinct(_)
Distinct(s) ==
    IF s = <<>> THEN <<>>
    ELSE LET front == Distinct(SubSeq(s, 1, Len(s) - 1))
             last == s[Len(s)]
         IN IF last \in Range(front) THEN front ELSE Append(front, last)

CallNames == {"beginCreateCertificate", "getCertificateOperation", "createCsr",
              "createPrivateKey", "createAccount", "createOrder",
              "getAuthorizations", "finalizeOrder", "getCertificate",
              "mergeCertificate", "importCertificate"}

Invoke(name) == [calls EXCEPT ![name] = @ + 1]

\* ------------------------------------------------ ChallengeResponder (DNS)
\* String.prototype.replace(pattern, replacement) with a string pattern:
\* replaces the first occurrence only, anywhere in the string.
IndexOf(s, p) ==
    LET hits == {i \in 1..(Len(s) - Len(p) + 1) : SubSeq(s, i, i + Len(p) - 1) = p}
    IN IF hits = {} THEN 0 ELSE CHOOSE i \in hits : \A j \in hits : i <= j

Replace(s, p, r) ==
    LET i == IndexOf(s, p)
    IN IF i = 0 THEN s
       ELSE SubSeq(s, 1, i - 1) \o r \o SubSeq(s, i + Len(p), Len(s))

authzToRelativeDomain(dnsZone, identifier) ==
    <<"_acme-challenge.">> \o Replace(identifier, <<".">> \o dnsZone, <<>>)

\* Mutation: the value is added to the values the record set already has.
azureDnsCreateChallengeAppend(z, identifier, keyAuthorization) ==
    LET relativeDomain == authzToRelativeDomain(DnsZone, identifier)
        old == {r \in z : r.name = relativeDomain}
        values == IF old = {} THEN <<>> ELSE (CHOOSE r \in old : TRUE).value
    IN {r \in z : r.name # relativeDomain}
       \cup {[name |-> relativeDomain, tTL |-> 30,
               value |-> Append(values, keyAuthorization)]}

\* recordSets.createOrUpdate(rg, zone, relativeDomain, 'TXT', {tTL: 30, txtRecords: [{value: [keyAuthorization]}]})
azureDnsCreateChallenge(z, identifier, keyAuthorization) ==
    LET relativeDomain == authzToRelativeDomain(DnsZone, identifier)
    IN {r \in z : r.name # relativeDomain}
       \cup {[name |-> relativeDomain, tTL |-> 30, value |-> <<keyAuthorization>>]}

\* Mutation: the delete removes every challenge record of the zone.
azureDnsRemoveChallengeAll(z, identifier) ==
    {r \in z : r.name[1] # "_acme-challenge."}

\* Mutation: the delete names the record by the full identifier.
azureDnsRemoveChallengeAbsolute(z, identifier) ==
    {r \in z : r.name # <<"_acme-challenge.">> \o identifier}

\* recordSets.deleteMethod(rg, zone, relativeDomain, 'TXT')
azureDnsRemoveChallenge(z, identifier) ==
    LET relativeDomain == authzToRelativeDomain(DnsZone, identifier)
    IN {r \in z : r.name # relativeDomain}

\* client.getChallengeKeyAuthorization(challenge): the token of the challenge
\* joined with the account key thumbprint; one value per authorization.
KeyAuthorizationOf(identifier) == <<"keyAuthorization">> \o identifier

\* ------------------------------------------------------- AcmeOrderProcess
\* Mode B (acme2keyvault.ts:73-78): [commonName, ...(alternativeNames || [])]
\* Mode A (certRequest.ts:148):     [commonName, ...altNames], a TypeError
\* when altNames is undefined.
SpreadFails(m, ck) == m = "A" /\ ~ck.hasAlternativeNames

\* CERT_ALTERNATIVE_NAMES of the environment-configured function,
\* Acme2KeyVault/index.ts:40: (optConfig(...) || '').split(',')
SplitAltNames(ck) ==
    IF ck.hasAlternativeNames /\ ck.alternativeNames # <<>>
    THEN ck.alternativeNames
    ELSE <<EmptyName>>

Identifiers(m, ck) ==
    <<ck.commonName>>
        \o (IF m = EnvMode THEN SplitAltNames(ck)
            ELSE IF ck.hasAlternativeNames THEN ck.alternativeNames
            ELSE <<>>)

\* Mutation: a challenge is taken whatever its type.
SelectAnyChallenge(challenges) ==
    IF challenges = {} THEN Absent ELSE CHOOSE c \in challenges : c # "dns-01" \/ challenges = {"dns-01"}

\* authz.challenges.find((challenge) => challenge.type === 'dns-01')
SelectChallenge(challenges) ==
    IF "dns-01" \in challenges THEN "dns-01" ELSE Absent

\* The synchronous part of the map callback, lines 83-93: select the
\* challenge, throw when there is none, else call getChallengeKeyAuthorization.
StartAuthz(identifier, challenges) ==
    LET challenge == SelectChallenge(challenges)
    IN [identifier |-> identifier,
        challenges |-> challenges,
        challenge |-> challenge,
        pc |-> IF challenge = Absent THEN "rejected" ELSE "keyAuthorization",
        err |-> IF challenge = Absent THEN "NoDnsChallenge" ELSE "none",
        presentCalls |-> 0,
        cleanupCalls |-> 0,
        cleanupResult |-> "none"]

\* Mutation: the order goes on once every task has settled, however it settled.
PromiseAllSettled(ts) ==
    IF \A i \in DOMAIN ts : ts[i].pc \in {"fulfilled", "rejected"} THEN "fulfilled"
    ELSE "pending"

\* Mutation: the order goes on as soon as one task has fulfilled.
PromiseAny(ts) ==
    IF \E i \in DOMAIN ts : ts[i].pc = "fulfilled" THEN "fulfilled"
    ELSE IF \E i \in DOMAIN ts : ts[i].pc = "rejected" THEN "rejected"
    ELSE "pending"

\* Promise.all: rejects with the first rejection, fulfils when all fulfilled.
PromiseAll(ts) ==
    IF \E i \in DOMAIN ts : ts[i].pc = "rejected" THEN "rejected"
    ELSE IF \A i \in DOMAIN ts : ts[i].pc = "fulfilled" THEN "fulfilled"
    ELSE "pending"

FirstRejected(ts) ==
    CHOOSE i \in DOMAIN ts :
        /\ ts[i].pc = "rejected"
        /\ \A j \in DOMAIN ts : j < i => ts[j].pc # "rejected"

\* Continuation of `await Promise.all(...)`, lines 83 and 116-119, and of the
\* `await orderCertificate(...)` of run() when the order throws.
AwaitAuthorizations(ts) ==
    CASE PromiseAll(ts) = "rejected" ->
            /\ orderPc' = "thrown"
            /\ orderErr' = ts[FirstRejected(ts)].err
            /\ runPc' = "rejected"
            /\ runErr' = ts[FirstRejected(ts)].err
            /\ UNCHANGED calls
      [] PromiseAll(ts) = "fulfilled" ->
            /\ orderPc' = "finalizeOrder"
            /\ calls' = Invoke("finalizeOrder")
            /\ UNCHANGED <<orderErr, runPc, runErr>>
      [] OTHER ->
            /\ orderPc' = "authorizations"
            /\ UNCHANGED <<calls, orderErr, runPc, runErr>>

\* The store call run() makes with the certificate: mergeCertificate in
\* Mode B (acme2keyvault.ts:174), importCertificate in Mode A (certRequest.ts:213).
StoreCall(m) == IF m = "B" THEN "mergeCertificate" ELSE "importCertificate"

\* Mutation: run() swallows the error of the order and goes on to the store.
OrderThrowSwallowed(err) ==
    /\ orderPc' = "thrown"
    /\ orderErr' = err
    /\ runPc' = StoreCall(mode)
    /\ runErr' = runErr

\* An error thrown by a step of orderCertificate rejects run() as well.
OrderThrow(err) ==
    /\ orderPc' = "thrown"
    /\ orderErr' = err
    /\ runPc' = "rejected"
    /\ runErr' = err

RunReject(err) ==
    /\ runPc' = "rejected"
    /\ runErr' = err

\* One authorization task moves; Promise.all and its awaiter react in the
\* same turn when the order is still waiting for the tasks.
AuthzStep(a, new) ==
    LET ts == [authorizations EXCEPT ![a] = new]
    IN /\ authorizations' = ts
       /\ IF orderPc = "authorizations"
          THEN AwaitAuthorizations(ts)
          ELSE UNCHANGED <<orderPc, orderErr, runPc, runErr, calls>>

\* Mutation: no finally block; the delete follows the wait, and a failed step
\* leaves the task at once.
EnterCleanupOnSuccessOnly(t, err) ==
    IF err = "none"
    THEN [t EXCEPT !.pc = "cleanup", !.err = err, !.cleanupCalls = @ + 1]
    ELSE [t EXCEPT !.pc = "rejected", !.err = err]

\* Mutation: the delete is started but not awaited.
EnterCleanupNotAwaited(t, err) ==
    [t EXCEPT !.pc = IF err = "none" THEN "fulfilled" ELSE "rejected",
              !.err = err, !.cleanupCalls = @ + 1]

\* Entering the finally block, lines 107-110: azureDnsRemoveChallenge is called.
EnterCleanup(t, err) ==
    [t EXCEPT !.pc = "cleanup", !.err = err, !.cleanupCalls = @ + 1]

InFlight(a, call) == a \in DOMAIN authorizations /\ authorizations[a].pc = call


\* ------------------------------------------------------------------ Init
Requests ==
    {[commonName |-> cn, hasAlternativeNames |-> FALSE, alternativeNames |-> <<>>] :
        cn \in CommonNames}
    \cup
    {[commonName |-> cn, hasAlternativeNames |-> TRUE, alternativeNames |-> alt] :
        cn \in CommonNames, alt \in SeqsUpTo(AltNamePool, MaxAltNames)}

\* A TXT record set of the zone that no order owns.
UnrelatedRecord == [name |-> <<"s", "p", "f">>, tTL |-> 3600, value |-> <<"v=spf1">>]

\* A point in time, as Date.getTime() splits into whole days and milliseconds.
MsPerDay == 1000 * 60 * 60 * 24
Time(day, ms) == [day |-> day, ms |-> ms]
PlusDays(t, days) == [t EXCEPT !.day = @ + days]
ProcessStart == Time(0, 0)

\* A value of a JSON document: its kind, and its content by kind.
JsonValue(kind, str, num, elems) ==
    [kind |-> kind, str |-> str, num |-> num, elems |-> elems]
JsonUndefined == JsonValue("undefined", <<>>, 0, <<>>)
JsonString(str) == JsonValue("string", str, 0, <<>>)
JsonNumber(num) == JsonValue("number", <<>>, num, <<>>)
JsonStrings(elems) == JsonValue("strings", <<>>, 0, elems)
JsonNumbers == JsonValue("numbers", <<>>, 0, <<>>)

NoDocument ==
    [commonName |-> JsonUndefined, keySize |-> JsonUndefined,
     alternativeNames |-> JsonUndefined]
NotParsed == [outcome |-> "none", certKey |-> NoDocument]

\* The blob-triggered function has not been invoked.
\* No invocation of run() is under way or has been made.
ConcIdle ==
    /\ flows = <<>>
    /\ vault = <<>>

DocIdle ==
    /\ json = NoDocument
    /\ parsed = NotParsed

\* The selector function is not running; the worker process has loaded no
\* renewal configuration that matters to the other functions.
SelIdle ==
    /\ selector = "perInvocation"
    /\ renewEnv = "undefined"
    /\ now = ProcessStart
    /\ today = ProcessStart
    /\ blobs = <<>>
    /\ selPc = "idle"
    /\ selErr = "none"
    /\ selIdx = 0
    /\ selResult = <<>>
    /\ invocations = 0

\* What the orchestration instance has reported: nothing yet, the return
\* value of the generator, or the error it threw.
NoOutput == [kind |-> "none", succeeded |-> 0, failed |-> 0]
ReturnedUndefined == [kind |-> "undefined", succeeded |-> 0, failed |-> 0]
ThrownError == [kind |-> "error", succeeded |-> 0, failed |-> 0]

CoordIdle ==
    /\ coordPc = "idle"
    /\ certRequests = <<>>
    /\ tasks = <<>>
    /\ inputs = <<>>
    /\ coordOutput = NoOutput

Init ==
    /\ mode \in Modes
    /\ certKey \in Requests
    /\ runPc = "start"
    /\ runErr = "none"
    /\ orderPc = "idle"
    /\ orderErr = "none"
    /\ orderIds = <<>>
    /\ authorizations = <<>>
    /\ calls = [c \in CallNames |-> 0]
    /\ zone = {UnrelatedRecord}
    /\ store \in {[pending |-> FALSE, versions |-> v] : v \in {<<>>, <<"previous">>}}
    /\ holdsKey = FALSE
    /\ CoordIdle
    /\ SelIdle
    /\ DocIdle
    /\ ConcIdle

\* Runs over requests chosen for their names: no alternative names at all,
\* and two names of the zone that hold the zone's name twice.  The
\* environment-configured function is among the deployments.
NameRequests ==
    {[commonName |-> Apex, hasAlternativeNames |-> FALSE, alternativeNames |-> <<>>]}
    \cup
    {[commonName |-> Nested, hasAlternativeNames |-> TRUE, alternativeNames |-> alt] :
        alt \in SeqsUpTo({Twin}, MaxAltNames) \ {<<>>}}

InitNames ==
    /\ mode \in Modes \cup {EnvMode}
    /\ certKey \in NameRequests
    /\ runPc = "start"
    /\ runErr = "none"
    /\ orderPc = "idle"
    /\ orderErr = "none"
    /\ orderIds = <<>>
    /\ authorizations = <<>>
    /\ calls = [c \in CallNames |-> 0]
    /\ zone = {UnrelatedRecord}
    /\ store \in {[pending |-> FALSE, versions |-> v] : v \in {<<>>, <<"previous">>}}
    /\ holdsKey = FALSE
    /\ CoordIdle
    /\ SelIdle
    /\ DocIdle
    /\ ConcIdle

\* ----------------------------------------------------------------- run()
\* Mutation: the key pair and the CSR are made by the workflow in every mode.
RunStartLocalKey ==
    /\ runPc = "start"
    /\ runPc' = "createCsr"
    /\ calls' = Invoke("createCsr")
    /\ UNCHANGED <<mode, certKey, runErr, orderPc, orderErr, orderIds,
                   authorizations, zone, store, holdsKey>>
    /\ UNCHANGED <<coordVars, selVars, docVars, concVars>>

\* Mode B, acme2keyvault.ts:178-185; Mode A, certRequest.ts:233-237.
RunStart ==
    /\ runPc = "start"
    /\ IF mode = "B"
       THEN /\ runPc' = "beginCreateCertificate"
            /\ calls' = Invoke("beginCreateCertificate")
       ELSE /\ runPc' = "createCsr"
            /\ calls' = Invoke("createCsr")
    /\ UNCHANGED <<mode, certKey, runErr, orderPc, orderErr, orderIds,
                   authorizations, zone, store, holdsKey>>
    /\ UNCHANGED <<coordVars, selVars, docVars, concVars>>

\* generateNewCertKey, lines 153-159: the create operation is left pending
\* in the vault and the operation is read back for its CSR.
BeginCreateCertificateReturn ==
    /\ runPc = "beginCreateCertificate"
    /\ \E ok \in BOOLEAN :
        IF ok
        THEN /\ store' = [store EXCEPT !.pending = TRUE]
             /\ runPc' = "getCertificateOperation"
             /\ calls' = Invoke("getCertificateOperation")
             /\ UNCHANGED runErr
        ELSE /\ RunReject("beginCreateCertificate")
             /\ UNCHANGED <<store, calls>>
    /\ UNCHANGED <<mode, certKey, orderPc, orderErr, orderIds,
                   authorizations, zone, holdsKey>>
    /\ UNCHANGED <<coordVars, selVars, docVars, concVars>>

\* generateNewCertKey, lines 159-165, then run line 188 and orderCertificate
\* lines 60-63 up to `await acme.forge.createPrivateKey()`.
GetCertificateOperationReturn ==
    /\ runPc = "getCertificateOperation"
    /\ \E ok \in BOOLEAN :
        IF ok
        THEN /\ runPc' = "orderCertificate"
             /\ orderPc' = "createPrivateKey"
             /\ calls' = Invoke("createPrivateKey")
             /\ UNCHANGED runErr
        ELSE /\ RunReject("getCertificateOperation")
             /\ UNCHANGED <<orderPc, calls>>
    /\ UNCHANGED <<mode, certKey, orderErr, orderIds, authorizations, zone,
                   store, holdsKey>>
    /\ UNCHANGED <<coordVars, selVars, docVars, concVars>>

\* Mode A, certRequest.ts:237-240 and 133-138: the key pair is made locally.
CreateCsrReturn ==
    /\ runPc = "createCsr"
    /\ \E ok \in BOOLEAN :
        IF ok
        THEN /\ holdsKey' = TRUE
             /\ runPc' = "orderCertificate"
             /\ orderPc' = "createPrivateKey"
             /\ calls' = Invoke("createPrivateKey")
             /\ UNCHANGED runErr
        ELSE /\ RunReject("createCsr")
             /\ UNCHANGED <<orderPc, calls, holdsKey>>
    /\ UNCHANGED <<mode, certKey, orderErr, orderIds, authorizations, zone, store>>
    /\ UNCHANGED <<coordVars, selVars, docVars, concVars>>

\* ----------------------------------------------------- orderCertificate()
\* lines 60-69: the account key is ready, createAccount is called.
CreatePrivateKeyReturn ==
    /\ orderPc = "createPrivateKey"
    /\ \E ok \in BOOLEAN :
        IF ok
        THEN /\ orderPc' = "createAccount"
             /\ calls' = Invoke("createAccount")
             /\ UNCHANGED <<orderErr, runPc, runErr>>
        ELSE /\ OrderThrow("createPrivateKey")
             /\ UNCHANGED calls
    /\ UNCHANGED <<mode, certKey, orderIds, authorizations, zone, store, holdsKey>>
    /\ UNCHANGED <<coordVars, selVars, docVars, concVars>>

\* lines 66-79: the account is registered, the identifiers are built and
\* createOrder is called; m names the source whose expression builds them.
CreateAccountReturnIn(m) ==
    /\ orderPc = "createAccount"
    /\ \E ok \in BOOLEAN :
        IF ~ok
        THEN /\ OrderThrow("createAccount")
             /\ UNCHANGED <<calls, orderIds>>
        ELSE IF SpreadFails(m, certKey)
        THEN /\ OrderThrow("TypeError")
             /\ UNCHANGED <<calls, orderIds>>
        ELSE /\ orderIds' = Identifiers(m, certKey)
             /\ orderPc' = "createOrder"
             /\ calls' = Invoke("createOrder")
             /\ UNCHANGED <<orderErr, runPc, runErr>>
    /\ UNCHANGED <<mode, certKey, authorizations, zone, store, holdsKey>>
    /\ UNCHANGED <<coordVars, selVars, docVars, concVars>>

CreateAccountReturn == CreateAccountReturnIn(mode)

\* lines 72-82
CreateOrderReturn ==
    /\ orderPc = "createOrder"
    /\ \E ok \in BOOLEAN :
        IF ok
        THEN /\ orderPc' = "getAuthorizations"
             /\ calls' = Invoke("getAuthorizations")
             /\ UNCHANGED <<orderErr, runPc, runErr>>
        ELSE /\ OrderThrow("createOrder")
             /\ UNCHANGED calls
    /\ UNCHANGED <<mode, certKey, orderIds, authorizations, zone, store, holdsKey>>
    /\ UNCHANGED <<coordVars, selVars, docVars, concVars>>

\* lines 82-93 and 116: the authorizations arrive, the map callback runs for
\* each of them up to its first await, and Promise.all is awaited.
GetAuthorizationsReturn ==
    /\ orderPc = "getAuthorizations"
    /\ \E ok \in BOOLEAN :
        IF ok
        THEN LET ids == Distinct(orderIds)
             IN \E chs \in [DOMAIN ids -> (SUBSET ChallengeTypes) \ {{}}] :
                    LET ts == [i \in DOMAIN ids |-> StartAuthz(ids[i], chs[i])]
                    IN /\ authorizations' = ts
                       /\ AwaitAuthorizations(ts)
        ELSE /\ OrderThrow("getAuthorizations")
             /\ UNCHANGED <<calls, authorizations>>
    /\ UNCHANGED <<mode, certKey, orderIds, zone, store, holdsKey>>
    /\ UNCHANGED <<coordVars, selVars, docVars, concVars>>

\* lines 93-96: the key authorization is computed, present() is called.
KeyAuthorizationReturn(a) ==
    /\ InFlight(a, "keyAuthorization")
    /\ \E ok \in BOOLEAN :
        LET t == authorizations[a]
        IN IF ok
           THEN AuthzStep(a, [t EXCEPT !.pc = "present", !.presentCalls = @ + 1])
           ELSE AuthzStep(a, [t EXCEPT !.pc = "rejected", !.err = "keyAuthorization"])
    /\ UNCHANGED <<mode, certKey, orderIds, zone, store, holdsKey>>
    /\ UNCHANGED <<coordVars, selVars, docVars, concVars>>

\* Mutation: present() is not awaited inside the try block, its failure does
\* not stop the challenge steps.
PresentReturnUnchecked(a) ==
    /\ InFlight(a, "present")
    /\ \E ok \in BOOLEAN :
        LET t == authorizations[a]
        IN /\ zone' = IF ok
                      THEN azureDnsCreateChallenge(zone, t.identifier,
                                                   KeyAuthorizationOf(t.identifier))
                      ELSE zone
           /\ AuthzStep(a, [t EXCEPT !.pc = "verifyChallenge",
                                     !.err = IF ok THEN "none" ELSE "present"])
    /\ UNCHANGED <<mode, certKey, orderIds, store, holdsKey>>
    /\ UNCHANGED <<coordVars, selVars, docVars, concVars>>

\* lines 96-99 and 107-110: the record is upserted and verifyChallenge is
\* called, or the upsert failed and the finally block runs.
PresentReturn(a) ==
    /\ InFlight(a, "present")
    /\ \E ok \in BOOLEAN :
        LET t == authorizations[a]
        IN IF ok
           THEN /\ zone' = azureDnsCreateChallenge(zone, t.identifier,
                                                   KeyAuthorizationOf(t.identifier))
                /\ AuthzStep(a, [t EXCEPT !.pc = "verifyChallenge"])
           ELSE /\ UNCHANGED zone
                /\ AuthzStep(a, EnterCleanup(t, "present"))
    /\ UNCHANGED <<mode, certKey, orderIds, store, holdsKey>>
    /\ UNCHANGED <<coordVars, selVars, docVars, concVars>>

\* lines 99-102
VerifyChallengeReturn(a) ==
    /\ InFlight(a, "verifyChallenge")
    /\ \E ok \in BOOLEAN :
        LET t == authorizations[a]
        IN IF ok
           THEN AuthzStep(a, [t EXCEPT !.pc = "completeChallenge"])
           ELSE AuthzStep(a, EnterCleanup(t, "verifyChallenge"))
    /\ UNCHANGED <<mode, certKey, orderIds, zone, store, holdsKey>>
    /\ UNCHANGED <<coordVars, selVars, docVars, concVars>>

\* lines 102-105
CompleteChallengeReturn(a) ==
    /\ InFlight(a, "completeChallenge")
    /\ \E ok \in BOOLEAN :
        LET t == authorizations[a]
        IN IF ok
           THEN AuthzStep(a, [t EXCEPT !.pc = "waitForValidStatus"])
           ELSE AuthzStep(a, EnterCleanup(t, "completeChallenge"))
    /\ UNCHANGED <<mode, certKey, orderIds, zone, store, holdsKey>>
    /\ UNCHANGED <<coordVars, selVars, docVars, concVars>>

\* lines 105-110: the challenge is valid or the wait failed; either way the
\* finally block runs.
WaitForValidStatusReturn(a) ==
    /\ InFlight(a, "waitForValidStatus")
    /\ \E ok \in BOOLEAN :
        LET t == authorizations[a]
        IN IF ok
           THEN AuthzStep(a, EnterCleanup(t, "none"))
           ELSE AuthzStep(a, EnterCleanup(t, "waitForValidStatus"))
    /\ UNCHANGED <<mode, certKey, orderIds, zone, store, holdsKey>>
    /\ UNCHANGED <<coordVars, selVars, docVars, concVars>>

\* Mutation: a failed delete is tried again.
AfterCleanupRetry(t, removed) ==
    IF removed
    THEN [t EXCEPT !.cleanupResult = "ok",
                   !.pc = IF t.err = "none" THEN "fulfilled" ELSE "rejected"]
    ELSE [t EXCEPT !.cleanupCalls = @ + 1]

\* Mutation: the error of a failed delete leaves the finally block.
AfterCleanupEscalates(t, removed) ==
    IF removed
    THEN [t EXCEPT !.cleanupResult = "ok",
                   !.pc = IF t.err = "none" THEN "fulfilled" ELSE "rejected"]
    ELSE [t EXCEPT !.cleanupResult = "failed", !.pc = "rejected", !.err = "cleanup"]

\* How the task settles when the finally block is left, lines 107-116: a
\* failed delete is logged and swallowed, the pending exception of the try
\* block (if any) is rethrown.
AfterCleanup(t, removed) ==
    [t EXCEPT !.cleanupResult = IF removed THEN "ok" ELSE "failed",
              !.pc = IF t.err = "none" THEN "fulfilled" ELSE "rejected"]

\* lines 110-116
CleanupReturn(a) ==
    /\ InFlight(a, "cleanup")
    /\ \E ok \in BOOLEAN :
        LET t == authorizations[a]
        IN /\ zone' = IF ok THEN azureDnsRemoveChallenge(zone, t.identifier) ELSE zone
           /\ AuthzStep(a, AfterCleanup(t, ok))
    /\ UNCHANGED <<mode, certKey, orderIds, store, holdsKey>>
    /\ UNCHANGED <<coordVars, selVars, docVars, concVars>>

\* Mutation: a failed finalizeOrder is tried once more.
FinalizeOrderReturnRetry ==
    /\ orderPc = "finalizeOrder"
    /\ \E ok \in BOOLEAN :
        IF ok
        THEN /\ orderPc' = "getCertificate"
             /\ calls' = Invoke("getCertificate")
             /\ UNCHANGED <<orderErr, runPc, runErr>>
        ELSE IF calls["finalizeOrder"] < 2
        THEN /\ calls' = Invoke("finalizeOrder")
             /\ UNCHANGED <<orderPc, orderErr, runPc, runErr>>
        ELSE /\ OrderThrow("finalizeOrder")
             /\ UNCHANGED calls
    /\ UNCHANGED <<mode, certKey, orderIds, authorizations, zone, store, holdsKey>>
    /\ UNCHANGED <<coordVars, selVars, docVars, concVars>>

\* lines 119-122
FinalizeOrderReturn ==
    /\ orderPc = "finalizeOrder"
    /\ \E ok \in BOOLEAN :
        IF ok
        THEN /\ orderPc' = "getCertificate"
             /\ calls' = Invoke("getCertificate")
             /\ UNCHANGED <<orderErr, runPc, runErr>>
        ELSE /\ OrderThrow("finalizeOrder")
             /\ UNCHANGED calls
    /\ UNCHANGED <<mode, certKey, orderIds, authorizations, zone, store, holdsKey>>
    /\ UNCHANGED <<coordVars, selVars, docVars, concVars>>

\* line 122, then run lines 188-191 (Mode A: certRequest.ts:240-243)
GetCertificateReturn ==
    /\ orderPc = "getCertificate"
    /\ \E ok \in BOOLEAN :
        IF ok
        THEN /\ orderPc' = "returned"
             /\ runPc' = StoreCall(mode)
             /\ calls' = Invoke(StoreCall(mode))
             /\ UNCHANGED <<orderErr, runErr>>
        ELSE /\ OrderThrow("getCertificate")
             /\ UNCHANGED calls
    /\ UNCHANGED <<mode, certKey, orderIds, authorizations, zone, store, holdsKey>>
    /\ UNCHANGED <<coordVars, selVars, docVars, concVars>>

\* Mutation: run() resolves whatever mergeCertificate answered.
MergeCertificateReturnSwallowed ==
    /\ runPc = "mergeCertificate"
    /\ \E ok \in BOOLEAN :
        /\ store' = IF ok THEN [pending |-> FALSE,
                                versions |-> Append(store.versions, "merged")]
                     ELSE store
        /\ runPc' = "resolved"
        /\ UNCHANGED runErr
    /\ UNCHANGED <<mode, certKey, orderPc, orderErr, orderIds, authorizations,
                   calls, zone, holdsKey>>
    /\ UNCHANGED <<coordVars, selVars, docVars, concVars>>

\* storeCertificate, acme2keyvault.ts:169-175: the signed certificate is
\* merged into the pending entry.
MergeCertificateReturn ==
    /\ runPc = "mergeCertificate"
    /\ \E ok \in BOOLEAN :
        IF ok
        THEN /\ store' = [pending |-> FALSE, versions |-> Append(store.versions, "merged")]
             /\ runPc' = "resolved"
             /\ UNCHANGED runErr
        ELSE /\ RunReject("mergeCertificate")
             /\ UNCHANGED store
    /\ UNCHANGED <<mode, certKey, orderPc, orderErr, orderIds, authorizations,
                   calls, zone, holdsKey>>
    /\ UNCHANGED <<coordVars, selVars, docVars, concVars>>

\* storeCertificateToKeyVault, certRequest.ts:205-217: the bundle is imported
\* as a new enabled version.
ImportCertificateReturn ==
    /\ runPc = "importCertificate"
    /\ \E ok \in BOOLEAN :
        IF ok
        THEN /\ store' = [store EXCEPT !.versions = Append(@, "imported")]
             /\ runPc' = "resolved"
             /\ UNCHANGED runErr
        ELSE /\ RunReject("importCertificate")
             /\ UNCHANGED store
    /\ UNCHANGED <<mode, certKey, orderPc, orderErr, orderIds, authorizations,
                   calls, zone, holdsKey>>
    /\ UNCHANGED <<coordVars, selVars, docVars, concVars>>

Next ==
    \/ RunStart
    \/ BeginCreateCertificateReturn
    \/ GetCertificateOperationReturn
    \/ CreateCsrReturn
    \/ CreatePrivateKeyReturn
    \/ CreateAccountReturn
    \/ CreateOrderReturn
    \/ GetAuthorizationsReturn
    \/ \E a \in 1..(MaxAltNames + 1) : KeyAuthorizationReturn(a)
    \/ \E a \in 1..(MaxAltNames + 1) : PresentReturn(a)
    \/ \E a \in 1..(MaxAltNames + 1) : VerifyChallengeReturn(a)
    \/ \E a \in 1..(MaxAltNames + 1) : CompleteChallengeReturn(a)
    \/ \E a \in 1..(MaxAltNames + 1) : WaitForValidStatusReturn(a)
    \/ \E a \in 1..(MaxAltNames + 1) : CleanupReturn(a)
    \/ FinalizeOrderReturn
    \/ GetCertificateReturn
    \/ MergeCertificateReturn
    \/ ImportCertificateReturn

Spec == Init /\ [][Next]_vars

SpecNames == InitNames /\ [][Next]_vars

TypeOK ==
    /\ mode \in Modes \cup {EnvMode}
    /\ runPc \in {"start", "beginCreateCertificate", "getCertificateOperation",
                  "createCsr", "orderCertificate", "mergeCertificate",
                  "importCertificate", "resolved", "rejected"}
    /\ orderPc \in {"idle", "createPrivateKey", "createAccount", "createOrder",
                    "getAuthorizations", "authorizations", "finalizeOrder",
                    "getCertificate", "returned", "thrown"}
    /\ \A a \in DOMAIN authorizations :
        authorizations[a].pc \in {"keyAuthorization", "present", "verifyChallenge",
                                  "completeChallenge", "waitForValidStatus",
                                  "cleanup", "fulfilled", "rejected"}

\* --------------------------------------------------- RenewalCoordinator
\* The orchestrator of AcmeRenewCoordinator and the Acme2KeyVaultActivity
\* function.  An activity is the run() explored by Spec; here only its
\* outcome (run() resolved or rejected) is kept.
OrderIdle ==
    /\ mode = "B"
    /\ certKey = [commonName |-> Apex, hasAlternativeNames |-> FALSE,
                  alternativeNames |-> <<>>]
    /\ runPc = "start"
    /\ runErr = "none"
    /\ orderPc = "idle"
    /\ orderErr = "none"
    /\ orderIds = <<>>
    /\ authorizations = <<>>
    /\ calls = [c \in CallNames |-> 0]
    /\ zone = {UnrelatedRecord}
    /\ store = [pending |-> FALSE, versions |-> <<>>]
    /\ holdsKey = FALSE

InitCoord ==
    /\ OrderIdle
    /\ CoordIdle
    /\ SelIdle
    /\ DocIdle
    /\ ConcIdle

\* line 9: yield context.df.callActivity('AcmeCertList')
CoordStart ==
    /\ coordPc = "idle"
    /\ coordPc' = "AcmeCertList"
    /\ UNCHANGED <<certRequests, tasks, inputs, coordOutput>>
    /\ UNCHANGED <<orderVars, selVars, docVars, concVars>>

\* Mutation: the loop leaves out the last element of the list.
CallActivitiesButLast(reqs) == [i \in 1..(Len(reqs) - 1) |-> reqs[i]]

\* lines 16-19: for (const certRequest of certRequests)
\*     tasks.push(context.df.callActivity('Acme2KeyVaultActivity', certRequest))
CallActivities(reqs) == [i \in 1..Len(reqs) |-> reqs[i]]

\* Mutation: the check for an empty list is missing.
NeverEmpty(reqs) == FALSE

\* line 11: certRequests.length === 0
EmptySelection(reqs) == Len(reqs) = 0

\* lines 9-20: the list arrives; an empty list returns, otherwise one
\* activity is scheduled per element and Task.all is yielded.
AcmeCertListReturn ==
    /\ coordPc = "AcmeCertList"
    /\ \E ok \in BOOLEAN, n \in 0..MaxBatch :
        IF ~ok
        THEN /\ coordPc' = "failed"
             /\ coordOutput' = ThrownError
             /\ UNCHANGED <<certRequests, tasks, inputs>>
        ELSE /\ certRequests' = [i \in 1..n |-> i]
             /\ IF EmptySelection([i \in 1..n |-> i])
                THEN /\ coordPc' = "completed"
                     /\ coordOutput' = ReturnedUndefined
                     /\ UNCHANGED <<tasks, inputs>>
                ELSE /\ inputs' = CallActivities([i \in 1..n |-> i])
                     /\ tasks' = [j \in DOMAIN CallActivities([i \in 1..n |-> i]) |-> "scheduled"]
                     /\ coordPc' = "Task.all"
                     /\ UNCHANGED coordOutput
    /\ UNCHANGED <<orderVars, selVars, docVars, concVars>>

\* Mutation: a failed orchestration cancels the activities not yet started.
CanStartUnlessFailed(i) ==
    i \in DOMAIN tasks /\ tasks[i] = "scheduled" /\ coordPc # "failed"

\* The Functions host starts a scheduled activity whatever has become of the
\* orchestration or of the other activities.
CanStart(i) == i \in DOMAIN tasks /\ tasks[i] = "scheduled"

\* Acme2KeyVaultActivity/index.ts:7-9: acme2keyvault.run is called.
ActivityStart(i) ==
    /\ CanStart(i)
    /\ tasks' = [tasks EXCEPT ![i] = "running"]
    /\ UNCHANGED <<coordPc, certRequests, inputs, coordOutput>>
    /\ UNCHANGED <<orderVars, selVars, docVars, concVars>>

\* Acme2KeyVaultActivity/index.ts:9-10: run() resolved or rejected.
ActivityReturn(i) ==
    /\ i \in DOMAIN tasks
    /\ tasks[i] = "running"
    /\ \E ok \in BOOLEAN :
        tasks' = [tasks EXCEPT ![i] = IF ok THEN "succeeded" ELSE "failed"]
    /\ UNCHANGED <<coordPc, certRequests, inputs, coordOutput>>
    /\ UNCHANGED <<orderVars, selVars, docVars, concVars>>

Finished(ts, i) == ts[i] \in {"succeeded", "failed"}

\* context.df.Task.all: completes when every task has succeeded, fails when a
\* task has failed.  Whether the failure is raised at the first failed task
\* or after the last task has finished depends on the durable-functions
\* release, so a failure may be raised at either time.
TaskAll(ts) ==
    IF \A i \in DOMAIN ts : ts[i] = "succeeded" THEN {"completed"}
    ELSE IF \E i \in DOMAIN ts : ts[i] = "failed" THEN {"failed"}
    ELSE {}

\* lines 20-21: Task.all settles; the generator returns (undefined) or the
\* exception of Task.all leaves it.
TaskAllReturn ==
    /\ coordPc = "Task.all"
    /\ \E outcome \in TaskAll(tasks) :
        /\ coordPc' = outcome
        /\ coordOutput' = IF outcome = "completed" THEN ReturnedUndefined ELSE ThrownError
    /\ UNCHANGED <<certRequests, tasks, inputs>>
    /\ UNCHANGED <<orderVars, selVars, docVars, concVars>>

NextCoord ==
    \/ CoordStart
    \/ AcmeCertListReturn
    \/ \E i \in 1..MaxBatch : ActivityStart(i)
    \/ \E i \in 1..MaxBatch : ActivityReturn(i)
    \/ TaskAllReturn

SpecCoord == InitCoord /\ [][NextCoord]_vars

\* The Functions host runs every scheduled activity, and run() settles.
SpecCoordFair ==
    /\ SpecCoord
    /\ \A i \in 1..MaxBatch : WF_vars(ActivityStart(i)) /\ WF_vars(ActivityReturn(i))

\* ------------------------------------------------------- RenewalSelector
\* AcmeCertList: three sources of the function are in the repository.
\*   "perInvocation"  reads the threshold and the date when it is invoked
\*   "moduleConfig"   reads them once, when the worker loads the module
\*   "legacy"         as moduleConfig, with its own isOldEnough and no enabled test
Selectors == {"perInvocation", "moduleConfig", "legacy"}

\* RENEW_DAYS_THRESHOLD as the environment holds it.
RenewEnvs == {Absent, "0", "1"}

\* Number.parseInt(envConfig.opt('RENEW_DAYS_THRESHOLD') || '30', 10)
ParseInt(str) ==
    CASE str = "0" -> 0
      [] str = "1" -> 1
      [] str = "30" -> 30
renewDaysThreshold == ParseInt(IF renewEnv = Absent THEN "30" ELSE renewEnv)

\* expiryDate.getTime() - now.getTime(), as whole days and a remainder of
\* milliseconds in 0 .. MsPerDay - 1.
TimeDiff(a, b) ==
    LET days == a.day - b.day
        ms == a.ms - b.ms
    IN  IF ms < 0 THEN Time(days - 1, ms + MsPerDay) ELSE Time(days, ms)

isOldEnoughWholeDays(rightNow, expiryDate, thresholdDays) ==
    TimeDiff(expiryDate, rightNow).day <= thresholdDays

\* timeUntilExpiration / MsPerDay <= thresholdDays: the quotient is the whole
\* days plus a fraction that is zero only when the remainder is zero.
isOldEnough(rightNow, expiryDate, thresholdDays) ==
    LET timeUntilExpiration == TimeDiff(expiryDate, rightNow)
    IN  \/ timeUntilExpiration.day < thresholdDays
        \/ /\ timeUntilExpiration.day = thresholdDays
           /\ timeUntilExpiration.ms = 0

\* What the vault answers when asked for a certificate.
VaultAnswers == {"certificate", "RestError404", "RestError403"}

\* Expiry dates around the renewal threshold thr, counted from process start.
Expiries(thr) ==
    {Time(thr - 1, MsPerDay - 1), Time(thr, 0), Time(thr, 1), Time(thr + 1, 0)}

\* The blobs a container can hold: something that is not a .json blob, a
\* .json blob that is no certificate request, and certificate requests with
\* each answer of the vault.
BlobsFor(thr) ==
    LET blob(j, p, v, e, x) ==
            [isJson |-> j, parses |-> p, vault |-> v, enabled |-> e, expiresOn |-> x]
    IN  {blob(FALSE, FALSE, "RestError404", FALSE, ProcessStart),
         blob(TRUE, FALSE, "RestError404", FALSE, ProcessStart),
         blob(TRUE, TRUE, "RestError404", FALSE, ProcessStart),
         blob(TRUE, TRUE, "RestError403", FALSE, ProcessStart)}
        \cup {blob(TRUE, TRUE, "certificate", e, x) :
                e \in BOOLEAN, x \in Expiries(thr)}

NoCertificate == [found |-> FALSE, enabled |-> FALSE, expiresOn |-> ProcessStart]

GetCertDetailsSwallowsAll(blob) ==
    IF blob.vault = "certificate"
    THEN [thrown |-> "none",
          value |-> [found |-> TRUE, enabled |-> blob.enabled,
                     expiresOn |-> blob.expiresOn]]
    ELSE [thrown |-> "none", value |-> NoCertificate]

\* getCertDetails: the certificate, null for a RestError with status 404, any
\* other error rethrown.
getCertDetails(blob) ==
    CASE blob.vault = "certificate" ->
            [thrown |-> "none",
             value |-> [found |-> TRUE, enabled |-> blob.enabled,
                        expiresOn |-> blob.expiresOn]]
      [] blob.vault = "RestError404" ->
            [thrown |-> "none", value |-> NoCertificate]
      [] OTHER ->
            [thrown |-> blob.vault, value |-> NoCertificate]

shouldRenewCert(certDetails, rightNow, thresholdDays) ==
    /\ certDetails.enabled
    /\ isOldEnough(rightNow, certDetails.expiresOn, thresholdDays)

SelectsMissingToo(certDetails, rightNow, thresholdDays) ==
    \/ ~certDetails.found
    \/ shouldRenewCert(certDetails, rightNow, thresholdDays)

\* The branch of the current and the moduleConfig source: null is logged as
\* "No certificate provisioned" and not pushed.
SelectsProvisioned(certDetails, rightNow, thresholdDays) ==
    /\ certDetails.found
    /\ shouldRenewCert(certDetails, rightNow, thresholdDays)

\* The branch of the legacy source: certDetails === null || isOldEnough(certDetails)
SelectsLegacy(certDetails, rightNow, thresholdDays) ==
    \/ ~certDetails.found
    \/ isOldEnough(rightNow, certDetails.expiresOn, thresholdDays)

Selects(certDetails) ==
    IF selector = "legacy"
    THEN SelectsLegacy(certDetails, today, renewDaysThreshold)
    ELSE SelectsProvisioned(certDetails, today, renewDaysThreshold)

InitSel ==
    /\ OrderIdle
    /\ CoordIdle
    /\ DocIdle
    /\ ConcIdle
    /\ selector \in Selectors
    /\ renewEnv \in RenewEnvs
    /\ now = ProcessStart
    /\ today = ProcessStart
    /\ blobs \in SeqsUpTo(BlobsFor(renewDaysThreshold), MaxBlobs)
    /\ selPc = "idle"
    /\ selErr = "none"
    /\ selIdx = 0
    /\ selResult = <<>>
    /\ invocations = 0

SelOver == selPc \in {"idle", "returned", "rejected"}

\* Time passes between two invocations.
Tick ==
    /\ SelOver
    /\ now.day < MaxClockDays
    /\ now' = PlusDays(now, 1)
    /\ selPc' = "idle"
    /\ UNCHANGED <<selector, renewEnv, today, blobs, selErr, selIdx, selResult,
                   invocations>>
    /\ UNCHANGED <<orderVars, coordVars, docVars, concVars>>

\* The function is invoked: it starts the listing of the container.
SelStart ==
    /\ SelOver
    /\ invocations < MaxInvocations
    /\ invocations' = invocations + 1
    /\ today' = IF selector = "perInvocation" THEN now ELSE today
    /\ selPc' = "listBlobsFlat"
    /\ selErr' = "none"
    /\ selIdx' = 0
    /\ selResult' = <<>>
    /\ UNCHANGED <<selector, renewEnv, now, blobs>>
    /\ UNCHANGED <<orderVars, coordVars, docVars, concVars>>

SelReject(err) ==
    /\ selPc' = "rejected"
    /\ selErr' = err

\* The listing yields its next blob or ends; a blob whose name does not end
\* in .json is passed over, for any other the download starts.
ListBlobsNext ==
    /\ selPc = "listBlobsFlat"
    /\ \E ok \in BOOLEAN :
        IF ~ok
        THEN SelReject("listBlobsFlat") /\ UNCHANGED selIdx
        ELSE IF selIdx = Len(blobs)
        THEN selPc' = "returned" /\ UNCHANGED <<selErr, selIdx>>
        ELSE /\ selIdx' = selIdx + 1
             /\ selPc' = IF blobs[selIdx + 1].isJson
                         THEN "downloadToBuffer" ELSE "listBlobsFlat"
             /\ UNCHANGED selErr
    /\ UNCHANGED <<selector, renewEnv, now, today, blobs, selResult, invocations>>
    /\ UNCHANGED <<orderVars, coordVars, docVars, concVars>>

\* The download returns; certRequestFromJson parses the document, and throws
\* for one that is no certificate request; getCertDetails is called.
DownloadToBufferReturn ==
    /\ selPc = "downloadToBuffer"
    /\ \E ok \in BOOLEAN :
        IF ~ok
        THEN SelReject("downloadToBuffer")
        ELSE IF ~blobs[selIdx].parses
        THEN SelReject("fromJson")
        ELSE selPc' = "getCertificate" /\ UNCHANGED selErr
    /\ UNCHANGED <<selector, renewEnv, now, today, blobs, selIdx, selResult,
                   invocations>>
    /\ UNCHANGED <<orderVars, coordVars, docVars, concVars>>

\* The vault answers; the request is pushed or not, and the listing goes on.
GetCertDetailsReturn ==
    /\ selPc = "getCertificate"
    /\ LET certDetails == getCertDetails(blobs[selIdx])
       IN  IF certDetails.thrown # "none"
           THEN SelReject(certDetails.thrown) /\ UNCHANGED selResult
           ELSE /\ selPc' = "listBlobsFlat"
                /\ selResult' = IF Selects(certDetails.value)
                                THEN Append(selResult, selIdx) ELSE selResult
                /\ UNCHANGED selErr
    /\ UNCHANGED <<selector, renewEnv, now, today, blobs, selIdx, invocations>>
    /\ UNCHANGED <<orderVars, coordVars, docVars, concVars>>

NextSel ==
    \/ Tick
    \/ SelStart
    \/ ListBlobsNext
    \/ DownloadToBufferReturn
    \/ GetCertDetailsReturn

SpecSel == InitSel /\ [][NextSel]_vars

\* ------------------------------------------------- request documents
\* The certKey part of a request document, as the blob-triggered function
\* receives it; the azure and acme parts are taken to be well-formed.
KeySizes == {-1, 0, 2048, 40000}

Documents ==
    [commonName : {JsonUndefined, JsonNumber(0), JsonString(EmptyName), JsonString(Apex)},
     keySize : {JsonUndefined, JsonString(Apex)} \cup {JsonNumber(k) : k \in KeySizes},
     alternativeNames : {JsonUndefined, JsonNumbers, JsonStrings(<<>>),
                         JsonStrings(<<Apex>>), JsonStrings(<<Www>>)}]

\* JTD type int16
IsInt16(v) == v.kind = "number" /\ v.num >= -32768 /\ v.num <= 32767

\* The schema compiled by ajv.compileParser: commonName is a string;
\* keySize, if there, an int16; alternativeNames, if there, an array of strings.
MatchesSchema(doc) ==
    /\ doc.commonName.kind = "string"
    /\ doc.keySize.kind = "undefined" \/ IsInt16(doc.keySize)
    /\ doc.alternativeNames.kind \in {"undefined", "strings"}

\* fromJson: the parsed request, or the Error thrown when the parser
\* returned undefined.
fromJson(doc) ==
    IF MatchesSchema(doc)
    THEN [outcome |-> "returned", certKey |-> doc]
    ELSE [outcome |-> "thrown", certKey |-> NoDocument]

InitDoc ==
    /\ OrderIdle
    /\ CoordIdle
    /\ SelIdle
    /\ ConcIdle
    /\ json \in Documents
    /\ parsed = NotParsed

\* Acme2KeyVaultFromBlob: the document is parsed; the function rejects when
\* fromJson throws, and calls run() with the request otherwise.
FromJsonReturn ==
    /\ parsed = NotParsed
    /\ parsed' = fromJson(json)
    /\ UNCHANGED json
    /\ UNCHANGED <<orderVars, coordVars, selVars, concVars>>

NextDoc == FromJsonReturn

SpecDoc == InitDoc /\ [][NextDoc]_vars

\* --------------------------------------------- concurrent invocations
\* Invocations of acme2keyvault.run that the Functions host runs side by
\* side: the Acme2KeyVaultActivity tasks of one orchestration
\* (part_004:16-19), of two orchestrations (part_001 starts a new instance at
\* every timer event), and Acme2KeyVaultFromBlob.  Each takes its request
\* from a document of the container; nothing compares the documents with
\* each other.  The requests name one DNS zone; a request has no
\* alternative names, so an order has one authorization.
ConcRequests ==
    {[keyVaultName |-> "kv1", keyVaultCertName |-> "apex", commonName |-> Apex],
     [keyVaultName |-> "kv2", keyVaultCertName |-> "apex", commonName |-> Apex],
     [keyVaultName |-> "kv1", keyVaultCertName |-> "www", commonName |-> Www]}

\* `https://${keyVaultName}.vault.azure.net` and keyVaultCertName name an entry.
StoreKey(request) == <<request.keyVaultName, request.keyVaultCertName>>
StoreKeys == {StoreKey(r) : r \in ConcRequests}

NoOperation == 0
NoCsr == 0

\* Every order is made with an account key of its own (line 62), so the key
\* authorizations of two orders for one identifier differ.
FlowKeyAuthorization(f) ==
    KeyAuthorizationOf(flows[f].request.commonName) \o <<ToString(f)>>

InitConc ==
    /\ OrderIdle
    /\ CoordIdle
    /\ SelIdle
    /\ DocIdle
    /\ flows \in [1..MaxFlows ->
                    {[request |-> r, pc |-> "scheduled", err |-> "none", csr |-> NoCsr] :
                        r \in ConcRequests}]
    /\ vault = [k \in StoreKeys |-> [pending |-> NoOperation, versions |-> <<>>]]

FlowGoes(f, pc, err) == flows' = [flows EXCEPT ![f].pc = pc, ![f].err = err]

\* Acme2KeyVaultActivity/index.ts:7-9, Acme2KeyVaultFromBlob/index.ts:10-12:
\* run() is called and calls generateNewCertKey (acme2keyvault.ts:185).
FlowStart(f) ==
    /\ flows[f].pc = "scheduled"
    /\ FlowGoes(f, "beginCreateCertificate", "none")
    /\ UNCHANGED <<vault, orderVars, coordVars, selVars, docVars>>

\* lines 153-157: the vault starts a certificate operation for the name; an
\* operation already pending for that name is kept or replaced by the new one.
FlowBeginCreateCertificateReturn(f) ==
    /\ flows[f].pc = "beginCreateCertificate"
    /\ LET key == StoreKey(flows[f].request)
       IN \E ok \in BOOLEAN :
            IF ok
            THEN /\ \E op \in {f, vault[key].pending} \ {NoOperation} :
                        vault' = [vault EXCEPT ![key].pending = op]
                 /\ FlowGoes(f, "getCertificateOperation", "none")
            ELSE /\ FlowGoes(f, "rejected", "beginCreateCertificate")
                 /\ UNCHANGED vault
    /\ UNCHANGED <<orderVars, coordVars, selVars, docVars>>

\* lines 159-165 and 188: the CSR of the operation pending for the name is
\* read, and orderCertificate is called with it.
FlowGetCertificateOperationReturn(f) ==
    /\ flows[f].pc = "getCertificateOperation"
    /\ \E ok \in BOOLEAN :
        IF ok
        THEN flows' = [flows EXCEPT ![f].pc = "order",
                                    ![f].csr = vault[StoreKey(flows[f].request)].pending]
        ELSE FlowGoes(f, "rejected", "getCertificateOperation")
    /\ UNCHANGED <<vault, orderVars, coordVars, selVars, docVars>>

\* lines 62-97: createPrivateKey, createAccount, createOrder,
\* getAuthorizations and getChallengeKeyAuthorization return; the record is
\* about to be created.
FlowOrderReturn(f) ==
    /\ flows[f].pc = "order"
    /\ \E ok \in BOOLEAN :
        IF ok THEN FlowGoes(f, "present", "none")
        ELSE FlowGoes(f, "rejected", "order")
    /\ UNCHANGED <<vault, orderVars, coordVars, selVars, docVars>>

\* lines 94-99: azureDnsCreateChallenge returns; verifyChallenge is called,
\* or the finally block is entered.
FlowPresentReturn(f) ==
    /\ flows[f].pc = "present"
    /\ \E ok \in BOOLEAN :
        IF ok
        THEN /\ zone' = azureDnsCreateChallenge(zone, flows[f].request.commonName,
                                                FlowKeyAuthorization(f))
             /\ FlowGoes(f, "validate", "none")
        ELSE /\ FlowGoes(f, "cleanup", "present")
             /\ UNCHANGED zone
    /\ UNCHANGED <<mode, certKey, runPc, runErr, orderPc, orderErr, orderIds,
                   authorizations, calls, store, holdsKey>>
    /\ UNCHANGED <<vault, coordVars, selVars, docVars>>

\* lines 99-110: verifyChallenge, completeChallenge and waitForValidStatus
\* return or one of them throws; the finally block is entered.
FlowValidateReturn(f) ==
    /\ flows[f].pc = "validate"
    /\ \E ok \in BOOLEAN :
        FlowGoes(f, "cleanup", IF ok THEN "none" ELSE "validate")
    /\ UNCHANGED <<vault, orderVars, coordVars, selVars, docVars>>

\* lines 107-119: azureDnsRemoveChallenge returns, its error caught; the
\* task settles, and the order goes on with finalizeOrder or throws.
FlowCleanupReturn(f) ==
    /\ flows[f].pc = "cleanup"
    /\ \E removed \in BOOLEAN :
        zone' = IF removed
                THEN azureDnsRemoveChallenge(zone, flows[f].request.commonName)
                ELSE zone
    /\ IF flows[f].err = "none"
       THEN FlowGoes(f, "finalizeOrder", "none")
       ELSE FlowGoes(f, "rejected", flows[f].err)
    /\ UNCHANGED <<mode, certKey, runPc, runErr, orderPc, orderErr, orderIds,
                   authorizations, calls, store, holdsKey>>
    /\ UNCHANGED <<vault, coordVars, selVars, docVars>>

\* lines 119-122 and 191: finalizeOrder and getCertificate return;
\* storeCertificate is called.
FlowFinalizeOrderReturn(f) ==
    /\ flows[f].pc = "finalizeOrder"
    /\ \E ok \in BOOLEAN :
        IF ok THEN FlowGoes(f, "mergeCertificate", "none")
        ELSE FlowGoes(f, "rejected", "finalizeOrder")
    /\ UNCHANGED <<vault, orderVars, coordVars, selVars, docVars>>

\* lines 169-175: the certificate, issued for the CSR this invocation read,
\* is merged into the entry of the name.
FlowMergeCertificateReturn(f) ==
    /\ flows[f].pc = "mergeCertificate"
    /\ LET key == StoreKey(flows[f].request)
       IN \E ok \in BOOLEAN :
            IF ok
            THEN /\ vault' = [vault EXCEPT ![key] =
                                [pending |-> NoOperation,
                                 versions |-> Append(@.versions, flows[f].csr)]]
                 /\ FlowGoes(f, "resolved", "none")
            ELSE /\ FlowGoes(f, "rejected", "mergeCertificate")
                 /\ UNCHANGED vault
    /\ UNCHANGED <<orderVars, coordVars, selVars, docVars>>

NextConc ==
    \/ \E f \in 1..MaxFlows : FlowStart(f)
    \/ \E f \in 1..MaxFlows : FlowBeginCreateCertificateReturn(f)
    \/ \E f \in 1..MaxFlows : FlowGetCertificateOperationReturn(f)
    \/ \E f \in 1..MaxFlows : FlowOrderReturn(f)
    \/ \E f \in 1..MaxFlows : FlowPresentReturn(f)
    \/ \E f \in 1..MaxFlows : FlowValidateReturn(f)
    \/ \E f \in 1..MaxFlows : FlowCleanupReturn(f)
    \/ \E f \in 1..MaxFlows : FlowFinalizeOrderReturn(f)
    \/ \E f \in 1..MaxFlows : FlowMergeCertificateReturn(f)

SpecConc == InitConc /\ [][NextConc]_vars

\* ================================================================ claims
Settled(t) == t.pc \in {"fulfilled", "rejected"}
Auth(a) == authorizations[a]
StepErrors == {"present", "verifyChallenge", "completeChallenge", "waitForValidStatus"}
NewVersions == {i \in DOMAIN store.versions : store.versions[i] # "previous"}

\* C1 (as claimed): when the order has failed, every authorization of the
\* order has settled, and every authorization that called present() has
\* called cleanup().
C1_OrderFailureAfterAllSettled ==
    orderPc = "thrown" =>
        \A a \in DOMAIN authorizations :
            /\ Settled(Auth(a))
            /\ Auth(a).presentCalls > 0 => Auth(a).cleanupCalls > 0

\* C2: cleanup() is never called twice for an authorization, and an
\* authorization that called present() has called cleanup() exactly once by
\* the time it settles, whichever of present, verify, complete, wait failed.
C2_CleanupExactlyOnce ==
    \A a \in DOMAIN authorizations :
        /\ Auth(a).cleanupCalls <= 1
        /\ Auth(a).presentCalls <= 1
        /\ (Settled(Auth(a)) /\ Auth(a).presentCalls = 1) => Auth(a).cleanupCalls = 1
        /\ (~Settled(Auth(a)) /\ Auth(a).presentCalls = 1 /\ Auth(a).cleanupCalls = 0)
               => Auth(a).pc \in StepErrors

C2_Witness ==
    \E a \in DOMAIN authorizations :
        /\ Auth(a).pc = "rejected"
        /\ Auth(a).err = "verifyChallenge"
        /\ Auth(a).presentCalls = 1
        /\ Auth(a).cleanupCalls = 1

\* C3 (as claimed): every settled authorization has called cleanup(),
\* including one that failed in challenge selection or in the key
\* authorization.
C3_CleanupOnEveryExit ==
    \A a \in DOMAIN authorizations :
        Settled(Auth(a)) => Auth(a).cleanupCalls >= 1

\* C3 (amended): a settled authorization has called cleanup() and seen it
\* finish exactly when it got as far as present(): on success and on a
\* failure of present, verify, complete or wait.  A failure of the challenge
\* selection or of the key authorization settles it without cleanup().
C3_CleanupOnEveryExitAfterPresent ==
    \A a \in DOMAIN authorizations :
        Settled(Auth(a)) =>
            IF Auth(a).err \in {"NoDnsChallenge", "keyAuthorization"}
            THEN Auth(a).cleanupCalls = 0 /\ Auth(a).presentCalls = 0
            ELSE /\ Auth(a).err \in StepErrors \cup {"none"}
                 /\ Auth(a).cleanupCalls = 1
                 /\ Auth(a).cleanupResult # "none"

C3_Witness ==
    \E a, b \in DOMAIN authorizations :
        /\ Auth(a).pc = "rejected" /\ Auth(a).err = "present" /\ Auth(a).cleanupCalls = 1
        /\ Auth(b).pc = "rejected" /\ Auth(b).err = "keyAuthorization"

\* C4 (as claimed): an authorization that has rejected has made its cleanup
\* attempt and seen it finish.
C4_NoRejectionBeforeCleanup ==
    \A a \in DOMAIN authorizations :
        Auth(a).pc = "rejected" => Auth(a).cleanupResult # "none"

\* C4 (amended): an authorization that called present() and has rejected has
\* made its cleanup attempt and seen it finish (succeed or fail); while the
\* cleanup is in flight the authorization has not settled.  An authorization
\* that rejects before present() makes no cleanup attempt.
C4_NoRejectionBeforeCleanupAfterPresent ==
    \A a \in DOMAIN authorizations :
        /\ (Auth(a).pc = "rejected" /\ Auth(a).presentCalls > 0)
              => Auth(a).cleanupCalls = 1 /\ Auth(a).cleanupResult \in {"ok", "failed"}
        /\ (Auth(a).cleanupCalls > 0 /\ Auth(a).cleanupResult = "none")
              => Auth(a).pc = "cleanup"
        /\ (Auth(a).pc = "rejected" /\ Auth(a).presentCalls = 0)
              => Auth(a).cleanupCalls = 0

C4_Witness ==
    \E a \in DOMAIN authorizations :
        /\ Auth(a).pc = "rejected"
        /\ Auth(a).err = "waitForValidStatus"
        /\ Auth(a).cleanupResult = "failed"

\* C5: a failed cleanup() changes nothing: the authorization is validated
\* exactly when no step failed, the error it rejects with is the error of the
\* step, the order never fails with a cleanup error, and once all
\* authorizations are validated finalizeOrder is called.
C5_CleanupFailureSwallowed ==
    /\ \A a \in DOMAIN authorizations :
        Auth(a).cleanupResult = "failed" =>
            /\ Auth(a).err \in StepErrors \cup {"none"}
            /\ Auth(a).pc = IF Auth(a).err = "none" THEN "fulfilled" ELSE "rejected"
    /\ orderErr # "cleanup"
    /\ runErr # "cleanup"
    /\ (authorizations # <<>> /\ \A a \in DOMAIN authorizations : Auth(a).pc = "fulfilled")
          => calls["finalizeOrder"] = 1

C5_Witness ==
    /\ \E a \in DOMAIN authorizations :
        Auth(a).cleanupResult = "failed" /\ Auth(a).pc = "fulfilled"
    /\ orderPc = "getCertificate"

\* C6: an authorization that offers no dns-01 challenge is rejected with the
\* missing-challenge error, and neither present() nor cleanup() is called for it.
C6_NoDnsChallengeNoPresent ==
    \A a \in DOMAIN authorizations :
        "dns-01" \notin Auth(a).challenges =>
            /\ Auth(a).pc = "rejected"
            /\ Auth(a).err = "NoDnsChallenge"
            /\ Auth(a).presentCalls = 0
            /\ Auth(a).cleanupCalls = 0

C6_Witness ==
    \E a, b \in DOMAIN authorizations :
        /\ "dns-01" \notin Auth(a).challenges
        /\ Auth(b).presentCalls = 1

\* C7: finalizeOrder and getCertificate are called only when every
\* authorization of the order has validated; with a failed or unfinished
\* authorization neither has been called.
C7_FinalizeOnlyWhenAllValidated ==
    /\ (calls["finalizeOrder"] > 0 \/ calls["getCertificate"] > 0)
          => \A a \in DOMAIN authorizations : Auth(a).pc = "fulfilled"
    /\ (\E a \in DOMAIN authorizations : Auth(a).pc # "fulfilled")
          => orderPc \notin {"finalizeOrder", "getCertificate", "returned"}

C7_Witness ==
    /\ calls["finalizeOrder"] = 1
    /\ Len(authorizations) >= 2

\* C8 (as claimed): the store holds a pending entry or a new version of the
\* certificate only if getCertificate has returned.
C8_NothingStoredBeforeRetrieval ==
    (store.pending \/ NewVersions # {}) => orderPc = "returned"

\* C8 (amended): a certificate is written to the store (importCertificate,
\* mergeCertificate) only after getCertificate has returned, and a run whose
\* order fails leaves the store without a new certificate version.  In
\* Mode A nothing is written before that.  In Mode B generateNewCertKey has
\* created the pending entry before the order starts, and a failed order
\* leaves that pending entry in the store.
C8_NoCertificateStoredBeforeRetrieval ==
    /\ (NewVersions # {} \/ calls["mergeCertificate"] > 0 \/ calls["importCertificate"] > 0)
          => orderPc = "returned"
    /\ runPc \in {"mergeCertificate", "importCertificate"} => orderPc = "returned"
    /\ mode = "A" => ~store.pending
    /\ (mode = "B" /\ orderPc # "idle" /\ NewVersions = {}) => store.pending

C8_Witness ==
    /\ mode = "B"
    /\ orderPc = "thrown"
    /\ runPc = "rejected"
    /\ store.pending
    /\ NewVersions = {}

\* C9: every dispatched workflow runs to its own completion, whatever the
\* outcome of the other workflows and of the orchestration.
C9_EveryWorkflowCompletes ==
    \A i \in 1..MaxBatch :
        (i \in DOMAIN tasks) ~> (i \in DOMAIN tasks /\ Finished(tasks, i))

C9_Witness ==
    /\ coordPc = "failed"
    /\ \E i, j \in DOMAIN tasks : tasks[i] = "failed" /\ tasks[j] = "succeeded"

Count(ts, outcome) == Cardinality({i \in DOMAIN ts : ts[i] = outcome})

\* C10 (as claimed): a coordinator run that dispatched workflows ends as
\* completed, never as failed, and reports the exact counts of succeeded and
\* failed workflows.
C10_AggregateReport ==
    (coordPc \in {"completed", "failed"} /\ tasks # <<>>) =>
        /\ coordPc = "completed"
        /\ coordOutput = [kind |-> "counts",
                          succeeded |-> Count(tasks, "succeeded"),
                          failed |-> Count(tasks, "failed")]

\* C11 (as claimed): a coordinator run that has ended, as completed or as
\* failed, has no dispatched workflow that is still scheduled or running.
C11_CompletesAfterAllFinished ==
    coordPc \in {"completed", "failed"} =>
        \A i \in DOMAIN tasks : Finished(tasks, i)

\* C12: with an empty selection the orchestrator never reaches Task.all and
\* dispatches nothing: it has completed, returning undefined, in the step
\* that received the list.
C12_EmptySelectionNoOp ==
    /\ coordPc = "Task.all" => certRequests # <<>>
    /\ Len(tasks) \in {0, Len(certRequests)}
    /\ certRequests = <<>> => tasks = <<>>
    /\ (coordPc = "completed" /\ certRequests = <<>>) => coordOutput = ReturnedUndefined

C12_Witness ==
    /\ coordPc = "completed"
    /\ certRequests = <<>>
    /\ tasks = <<>>

\* ---- claims about the renewal selector (SpecSel)
Selected(i) == i \in Range(selResult)
Request(i) == blobs[i].isJson /\ blobs[i].parses
Missing(i) == Request(i) /\ blobs[i].vault = "RestError404"
Provisioned(i) == Request(i) /\ blobs[i].vault = "certificate"

\* Not more than days whole days are left from rightNow until expiresOn.
TimeLeftWithin(rightNow, expiresOn, days) ==
    LET beyond == TimeDiff(expiresOn, PlusDays(rightNow, days))
    IN  beyond.day < 0 \/ beyond = Time(0, 0)

\* C13 (as claimed): the work list an invocation returns holds every request
\* for whose certificate the vault answered "not found".
C13_MissingCertificateIncluded ==
    selPc = "returned" =>
        \A i \in 1..Len(blobs) : Missing(i) => Selected(i)

\* C13 (amended): a request for whose certificate the vault answered "not
\* found" is in the returned work list exactly when the legacy source is
\* deployed; the current and the moduleConfig source leave it out.
C13_MissingIncludedByLegacyOnly ==
    selPc = "returned" =>
        \A i \in 1..Len(blobs) :
            Missing(i) => (Selected(i) <=> selector = "legacy")

C13_Witness ==
    /\ selPc = "returned"
    /\ selector = "perInvocation"
    /\ \E i \in 1..Len(blobs) : Missing(i) /\ ~Selected(i)

\* C14 (as claimed): no request in the work list has a stored certificate
\* with enabled = false.
C14_DisabledNeverSelected ==
    \A i \in Range(selResult) : Provisioned(i) => blobs[i].enabled

\* C15 (as claimed): a request whose certificate exists and is enabled is in
\* the returned work list exactly when, at the time of the invocation, not
\* more than the threshold of days is left until expiresOn.
C15_IncludedIffDue ==
    selPc = "returned" =>
        \A i \in 1..Len(blobs) :
            (Provisioned(i) /\ blobs[i].enabled) =>
                (Selected(i) <=>
                    TimeLeftWithin(now, blobs[i].expiresOn, renewDaysThreshold))

\* C16: isOldEnough is true for an expiry exactly thresholdDays days ahead,
\* false for one thresholdDays + 1 days ahead, and in general true exactly
\* when the milliseconds left do not exceed thresholdDays days: one
\* millisecond more is not due, one millisecond less is.
C16_DueAtThresholdToTheMillisecond ==
    \A rightNow \in {now, today} :
        /\ isOldEnough(rightNow, PlusDays(rightNow, renewDaysThreshold),
                       renewDaysThreshold)
        /\ ~isOldEnough(rightNow, PlusDays(rightNow, renewDaysThreshold + 1),
                        renewDaysThreshold)
        /\ \A i \in 1..Len(blobs) :
            isOldEnough(rightNow, blobs[i].expiresOn, renewDaysThreshold)
                <=> TimeLeftWithin(rightNow, blobs[i].expiresOn,
                                   renewDaysThreshold)

\* The selector has applied isOldEnough on both sides of the threshold: to a
\* certificate with exactly the threshold left, and to one with a
\* millisecond more.
C16_Witness ==
    /\ selPc = "returned"
    /\ \E i, j \in 1..Len(blobs) :
        /\ Provisioned(i) /\ Selected(i)
        /\ TimeDiff(blobs[i].expiresOn, today) = Time(renewDaysThreshold, 0)
        /\ Provisioned(j) /\ blobs[j].enabled /\ ~Selected(j)
        /\ TimeDiff(blobs[j].expiresOn, today) = Time(renewDaysThreshold, 1)

\* C17 (as claimed): a document that fails to parse does not make the
\* invocation fail.
C17_ParseFailureDropsOnlyDocument ==
    ~(selPc = "rejected" /\ selErr = "fromJson")

\* C18: a read of certificate metadata that the vault answers with 404 does
\* not fail, the selector goes on past it; any other error of the vault is
\* the error the read, and with it the invocation, fails with.
C18_NotFoundIsNoError ==
    /\ selErr \notin {"none", "listBlobsFlat", "downloadToBuffer", "fromJson"} =>
        /\ selIdx >= 1
        /\ blobs[selIdx].vault = selErr
        /\ selErr # "RestError404"
    /\ \A i \in 1..selIdx :
        (/\ Request(i)
         /\ blobs[i].vault # "certificate"
         /\ (i < selIdx \/ selPc \in {"listBlobsFlat", "returned"}))
            => blobs[i].vault = "RestError404"

\* One invocation has read past a missing certificate and has then failed
\* with the vault's 403.
C18_Witness ==
    /\ selPc = "rejected"
    /\ selErr = "RestError403"
    /\ selIdx = 2
    /\ Missing(1)

\* ---- claims about the challenge records (Spec)
\* The identifier without its trailing ".<zone>", unchanged when it does not
\* end in it.
StripZoneSuffix(identifier, dnsZone) ==
    LET suffix == <<".">> \o dnsZone
        n == Len(identifier) - Len(suffix)
    IN  IF n >= 0 /\ SubSeq(identifier, n + 1, Len(identifier)) = suffix
        THEN SubSeq(identifier, 1, n)
        ELSE identifier

\* C19 (as claimed): every challenge record in the zone is named
\* "_acme-challenge." followed by an identifier of the order with the
\* trailing ".<zone>" stripped.
C19_RecordNameStripsZoneSuffix ==
    \A r \in zone \ {UnrelatedRecord} :
        \E a \in DOMAIN authorizations :
            r.name = <<"_acme-challenge.">>
                        \o StripZoneSuffix(authorizations[a].identifier, DnsZone)

\* The zone holds the challenge record of authorization a.
HasRecord(a) ==
    /\ a \in DOMAIN authorizations
    /\ \E r \in zone :
        r.name = authzToRelativeDomain(DnsZone, authorizations[a].identifier)

\* C20: a challenge record that an authorization has created is gone from
\* the zone when the authorization has settled, whether it and the order
\* succeeded or failed, unless the delete call for it failed; and as long as
\* the record is there and its authorization has not settled, the
\* authorization is in a call whose return leads to the delete.
C20_RecordsRemovedWhenSettled ==
    \A a \in DOMAIN authorizations :
        /\ (Settled(Auth(a)) /\ Auth(a).cleanupResult # "failed") => ~HasRecord(a)
        /\ (HasRecord(a) /\ ~Settled(Auth(a))) =>
              /\ Auth(a).pc \in {"verifyChallenge", "completeChallenge",
                                 "waitForValidStatus", "cleanup"}
              /\ Auth(a).cleanupResult = "none"

\* The order has failed, and the record of an authorization that failed after
\* creating it has been removed.
C20_Witness ==
    /\ runPc = "rejected"
    /\ \E a \in DOMAIN authorizations :
        /\ Auth(a).err = "verifyChallenge"
        /\ Auth(a).cleanupResult = "ok"
        /\ ~HasRecord(a)

\* The record name derived from authorization a.
RecordName(a) == authzToRelativeDomain(DnsZone, authorizations[a].identifier)

\* Authorization a's present() or cleanup() returns in this step.
DnsCallReturns(a) ==
    /\ a \in DOMAIN authorizations
    /\ authorizations[a].pc \in {"present", "cleanup"}
    /\ authorizations'[a].pc # authorizations[a].pc

\* C21: a step changes the zone only in the record named after the
\* authorization whose present() or cleanup() returns in that step; every
\* other record is the same before and after.  A successful cleanup leaves no
\* record under the name present() wrote.
C21_OnlyOwnRecordTouched ==
    [][\A r \in (zone \ zone') \cup (zone' \ zone) :
          \E a \in DOMAIN authorizations :
              /\ DnsCallReturns(a)
              /\ r.name = RecordName(a)
              /\ authorizations'[a].cleanupResult = "ok" =>
                    \A q \in zone' : q.name # RecordName(a)]_vars

\* One authorization has removed its record while the record of its sibling
\* and the unrelated record are still in the zone.
C21_Witness ==
    /\ UnrelatedRecord \in zone
    /\ \E a, b \in DOMAIN authorizations :
        /\ Auth(a).presentCalls = 1
        /\ Auth(a).cleanupResult = "ok"
        /\ ~HasRecord(a)
        /\ Auth(b).pc = "verifyChallenge"
        /\ HasRecord(b)

\* The record present() writes for authorization a.
Presented(a) ==
    [name |-> RecordName(a), tTL |-> 30,
     value |-> <<KeyAuthorizationOf(Auth(a).identifier)>>]

\* C22: for an authorization whose present() is in flight or has just
\* returned, present() applied to the zone a second time changes nothing,
\* and what present() leaves under the name is one TXT record with TTL 30
\* and the key authorization as its only value.
C22_PresentIdempotent ==
    \A a \in DOMAIN authorizations :
        Auth(a).pc \in {"present", "verifyChallenge"} =>
            LET identifier == Auth(a).identifier
                value == KeyAuthorizationOf(identifier)
                once == azureDnsCreateChallenge(zone, identifier, value)
            IN /\ azureDnsCreateChallenge(once, identifier, value) = once
               /\ \A r \in once :
                    r.name = Presented(a).name <=> r = Presented(a)
               /\ Presented(a) \in once
               /\ Auth(a).pc = "verifyChallenge" => once = zone

\* present() has returned for an authorization: the zone holds its record.
C22_Witness ==
    \E a \in DOMAIN authorizations :
        /\ Auth(a).pc = "verifyChallenge"
        /\ Presented(a) \in zone

\* C23 (as claimed): building the identifiers of the order does not fail,
\* and the order submitted names commonName followed by the alternativeNames
\* of the request, commonName alone when the request has none.
C23_OrderNamesRequestedIdentifiers ==
    /\ orderErr # "TypeError"
    /\ calls["createOrder"] >= 1 =>
          orderIds = <<certKey.commonName>>
                        \o (IF certKey.hasAlternativeNames
                            THEN certKey.alternativeNames ELSE <<>>)

\* The order of the authority calls of orderCertificate.
OrderSteps == <<"createAccount", "createOrder", "getAuthorizations",
                "authorizations", "finalizeOrder", "getCertificate">>
StepIndex(step) == CHOOSE i \in DOMAIN OrderSteps : OrderSteps[i] = step

\* Step number i of the order has been called.
StepCalled(i) ==
    IF OrderSteps[i] = "authorizations" THEN authorizations # <<>>
    ELSE calls[OrderSteps[i]] >= 1

\* Step number i of the order has returned successfully.
StepSucceeded(i) ==
    /\ StepCalled(i)
    /\ orderPc # OrderSteps[i]
    /\ IF OrderSteps[i] = "authorizations"
       THEN \A a \in DOMAIN authorizations : Auth(a).pc = "fulfilled"
       ELSE orderErr # OrderSteps[i]

\* C24: a step of the order has been called only if the step before it has
\* been called and has returned successfully; in particular getCertificate
\* only after finalizeOrder succeeded, finalizeOrder only after every
\* authorization went through its challenge steps.
C24_AuthorityCallsInOrder ==
    /\ \A i \in 2..Len(OrderSteps) : StepCalled(i) => StepSucceeded(i - 1)
    /\ orderPc \in Range(OrderSteps) => StepCalled(StepIndex(orderPc))
    /\ orderPc = "returned" => StepSucceeded(Len(OrderSteps))

\* The order has gone through all six steps, with more than one authorization.
C24_Witness ==
    /\ orderPc = "returned"
    /\ Len(authorizations) >= 2
    /\ \A c \in {"createAccount", "createOrder", "getAuthorizations",
                 "finalizeOrder", "getCertificate"} : calls[c] = 1

\* The step of the order that the error err belongs to; 0 for the account
\* key, which precedes the first authority call.
FailedStep(err) ==
    CASE err = "createPrivateKey" -> 0
      [] err = "TypeError" -> 1
      [] err \in Range(OrderSteps) -> StepIndex(err)
      [] OTHER -> StepIndex("authorizations")

\* C25: an error of any step but the delete fails the order and with it the
\* run; no call is made twice, and no step of the order that comes after the
\* failed one, nor the store call, is ever made.
C25_ErrorFailsOrderNoRetry ==
    /\ \A c \in CallNames : calls[c] <= 1
    /\ \A a \in DOMAIN authorizations :
        /\ Auth(a).presentCalls <= 1
        /\ Auth(a).pc = "rejected" => orderPc = "thrown"
    /\ orderErr # "none" <=> orderPc = "thrown"
    /\ orderPc = "thrown" =>
        /\ runPc = "rejected" /\ runErr = orderErr
        /\ \A i \in DOMAIN OrderSteps : StepCalled(i) => i <= FailedStep(orderErr)
        /\ calls[StoreCall(mode)] = 0
    /\ runErr # "none" <=> runPc = "rejected"
    /\ runErr \in {"beginCreateCertificate", "getCertificateOperation", "createCsr"} =>
        /\ orderPc = "idle"
        /\ \A i \in DOMAIN OrderSteps : ~StepCalled(i)

\* finalizeOrder has failed: the order and the run have failed, and neither
\* getCertificate nor the store has been called.
C25_Witness ==
    /\ orderErr = "finalizeOrder"
    /\ runPc = "rejected"
    /\ calls["finalizeOrder"] = 1
    /\ calls["getCertificate"] = 0
    /\ calls[StoreCall(mode)] = 0

\* C26: in Mode B the workflow never holds private key material of the
\* certificate: the key pair is made by the vault, the workflow reads the
\* CSR of the pending operation and writes back the signed certificate, and
\* it makes neither the call that creates a key locally nor the call that
\* imports one.
C26_PrivateKeyStaysInStore ==
    mode = "B" =>
        /\ ~holdsKey
        /\ calls["createCsr"] = 0
        /\ calls["importCertificate"] = 0
        /\ runPc \notin {"createCsr", "importCertificate"}
        /\ store.versions # <<>> =>
              store.versions[Len(store.versions)] # "imported"

\* A Mode B run has merged the signed certificate into the vault.
C26_Witness ==
    /\ mode = "B"
    /\ runPc = "resolved"
    /\ store.versions # <<>>
    /\ store.versions[Len(store.versions)] = "merged"
    /\ ~holdsKey

\* ---- claims about request documents (SpecDoc)
\* C27 (as claimed): a request that fromJson returns has a non-empty
\* commonName, a positive keySize if it has one, and alternativeNames, if it
\* has them, that do not contain commonName.
C27_ParsedRequestSatisfiesInvariant ==
    parsed.outcome = "returned" =>
        /\ parsed.certKey.commonName.str # EmptyName
        /\ parsed.certKey.keySize.kind # "undefined" =>
              parsed.certKey.keySize.num > 0
        /\ parsed.certKey.alternativeNames.kind # "undefined" =>
              parsed.certKey.commonName.str
                  \notin Range(parsed.certKey.alternativeNames.elems)

\* ---- claims about sibling authorizations
\* The record authorization a has presented, as the authority must find it.
OwnRecord(a) == Presented(a)

\* C29 (as claimed): two authorizations of one order never derive the same
\* record name, and while an authorization is between its present() and its
\* cleanup() the zone holds the record it presented, whatever its siblings do.
C29_SiblingRecordsDisjoint ==
    /\ \A a, b \in DOMAIN authorizations :
        a # b => RecordName(a) # RecordName(b)
    /\ \A a \in DOMAIN authorizations :
        Auth(a).pc \in {"verifyChallenge", "completeChallenge", "waitForValidStatus"}
            => OwnRecord(a) \in zone

\* ---- claims about the steps of one authorization
\* The call authorization a is in before and after a step; "none" before
\* the authorizations have arrived.
PcBefore(a) == IF a \in DOMAIN authorizations THEN authorizations[a].pc ELSE "none"
PcAfter(a) == authorizations'[a].pc

\* Authorization a gets to call next in this step only out of the call
\* before, and only when that call returned without error.
Gated(a, before, next) ==
    (PcAfter(a) = next /\ PcBefore(a) # next) =>
        /\ PcBefore(a) = before
        /\ authorizations'[a].err = "none"

\* C30: verifyChallenge is called only when present() has returned without
\* error, completeChallenge only so after verifyChallenge, waitForValidStatus
\* only so after completeChallenge; an authorization whose present() failed
\* calls none of the three, goes to its cleanup and fails.
C30_ChallengeStepsGated ==
    [][\A a \in DOMAIN authorizations' :
          /\ Gated(a, "present", "verifyChallenge")
          /\ Gated(a, "verifyChallenge", "completeChallenge")
          /\ Gated(a, "completeChallenge", "waitForValidStatus")
          /\ (PcBefore(a) = "present" /\ PcAfter(a) # "verifyChallenge") =>
                /\ PcAfter(a) \in {"present", "cleanup"}
                /\ PcAfter(a) = "cleanup" => authorizations'[a].err = "present"
          /\ authorizations'[a].err = "present" =>
                PcAfter(a) \in {"cleanup", "rejected"}]_vars

\* An authorization has failed in present(); its sibling has gone through
\* the three challenge steps.
C30_Witness ==
    \E a, b \in DOMAIN authorizations :
        /\ Auth(a).err = "present"
        /\ Auth(a).pc = "rejected"
        /\ Auth(b).pc = "fulfilled"

\* C31: the coordinator dispatches exactly one workflow per selected request:
\* as many workflows as the selection has elements, every selected request
\* the input of exactly one of them, and no workflow for a request that is
\* not in the selection.
Dispatched(r) == {i \in DOMAIN inputs : inputs[i] = r}

C31_OneWorkflowPerSelectedRequest ==
    /\ Len(inputs) = Len(certRequests)
    /\ DOMAIN tasks = DOMAIN inputs
    /\ \A r \in Range(certRequests) : Cardinality(Dispatched(r)) = 1
    /\ \A r \in (1..MaxBatch) \ Range(certRequests) : Dispatched(r) = {}

\* Several requests were selected, one was not; the selected ones all run.
C31_Witness ==
    /\ Len(certRequests) \in 2..(MaxBatch - 1)
    /\ \A i \in DOMAIN tasks : tasks[i] = "running"
    /\ inputs = certRequests

\* C32: a failed store write (importCertificate in Mode A, mergeCertificate
\* in Mode B) fails the run, and a run is reported successful only when the
\* store write returned successfully: the entry then holds the version this
\* run wrote, after one call of the store write.
StoreWriteErrors == {"mergeCertificate", "importCertificate"}
Written == IF mode = "B" THEN "merged" ELSE "imported"

C32_StoreFailureFailsRun ==
    /\ runErr \in StoreWriteErrors =>
        /\ runPc = "rejected"
        /\ runErr = StoreCall(mode)
    /\ runPc = "resolved" =>
        /\ runErr = "none"
        /\ calls[StoreCall(mode)] = 1
        /\ Cardinality(NewVersions) = 1
        /\ store.versions[Len(store.versions)] = Written

\* The order returned a certificate and the store write failed.
C32_Witness ==
    /\ orderPc = "returned"
    /\ runPc = "rejected"
    /\ runErr = StoreCall(mode)
    /\ NewVersions = {}

\* C33 (as claimed): every invocation of the selector compares expiry dates
\* with the time of that invocation, so a certificate that is due at the
\* time of an invocation, an earlier invocation having passed it over
\* or not, is in the list that invocation returns.
DueAt(i, rightNow) ==
    /\ Provisioned(i)
    /\ blobs[i].enabled
    /\ isOldEnough(rightNow, blobs[i].expiresOn, renewDaysThreshold)

C33_InvocationUsesCurrentTime ==
    /\ selPc # "idle" => today = now
    /\ selPc = "returned" =>
        \A i \in 1..Len(blobs) : (blobs[i].isJson /\ DueAt(i, now)) => Selected(i)

\* C34 (as claimed): workflows that run at the same time never write the
\* same DNS record name or the same store entry at the same time; the
\* challenge record of a workflow waiting for its validation is in the zone
\* with that workflow's value, and a workflow merges the certificate of the
\* operation it started itself.
FlowRecordName(f) == authzToRelativeDomain(DnsZone, flows[f].request.commonName)
WritesDns(f) == flows[f].pc \in {"present", "validate", "cleanup"}
WritesStore(f) ==
    flows[f].pc \in {"beginCreateCertificate", "getCertificateOperation", "order",
                     "present", "validate", "cleanup", "finalizeOrder",
                     "mergeCertificate"}
OwnRecordInZone(f) ==
    \E r \in zone : r.name = FlowRecordName(f) /\ r.value = <<FlowKeyAuthorization(f)>>

C34_ConcurrentWorkflowsWriteDisjointNames ==
    /\ \A f, g \in DOMAIN flows :
        f # g =>
            /\ ~(WritesDns(f) /\ WritesDns(g) /\ FlowRecordName(f) = FlowRecordName(g))
            /\ ~(/\ WritesStore(f)
                 /\ WritesStore(g)
                 /\ StoreKey(flows[f].request) = StoreKey(flows[g].request))
    /\ \A f \in DOMAIN flows :
        /\ flows[f].pc = "validate" => OwnRecordInZone(f)
        /\ flows[f].csr \in {NoCsr, f}

\* C35 (as claimed): the order processes of the sources are the same as the
\* authority and the DNS zone see them.  They differ in one expression, the
\* identifiers given to createOrder; so every return of createAccount, in
\* whatever source, is followed by what acme2keyvault.ts (Mode B) does on
\* the same response: the same createOrder call, or the same failure.
C35_OrderStepsAsModeB ==
    [][orderPc = "createAccount" => CreateAccountReturnIn("B")]_vars

====
